---- MODULE Spec2Model ----
(***************************************************************************)
(* MultiRailwayClient: the workspace router of the Railway MCP server.     *)
(* It holds one RailwayClient per configured token and sends each          *)
(* operation to the first client, to every client (merging what            *)
(* succeeds), or to each client in turn until one succeeds.                *)
(*                                                                         *)
(* Client positions are 1-based here; position p is the source's           *)
(* clients[p - 1].                                                         *)
(***************************************************************************)
EXTENDS Integers, Sequences, FiniteSets, TLC

VARIABLES
    clients,    \* MultiRailwayClient.clients: the RailwayClient list
    backend,    \* the HTTP response the Railway API gives each token
    op,         \* per call: the router method called ("none" before the call)
    arg,        \* per call: the `variables` argument of rawQuery
    pc,         \* per call: "idle", "await" (suspended on fetch) or "done"
    invoked,    \* per call: the client positions invoked, in invocation order
    pending,    \* per call: the positions whose invocation has not settled
    settled,    \* per call: the positions settled, in settlement order
    lastError,  \* per call: tryEach's local lastError
    outcome,    \* per call: what the tool handler's try block got: the return
                \* or throw of the router method, or the throw of its own parsing
    env,        \* process.env, as far as loadTokens reads it
    process     \* the server process: loading its tokens, serving, or exited

vars == <<clients, backend, op, arg, pc, invoked, pending, settled, lastError, outcome,
          env, process>>

(* ------------------------------ bounds --------------------------------- *)

MaxClients == 3      \* longest token list
MaxCalls == 2        \* router calls in flight at the same time
ConcClients == 2     \* longest token list under concurrent calls
MaxErrors == 2       \* longest errors list of a response body
MaxNamed == 2        \* most RAILWAY_* variables of the environment besides the two lists
MaxLen == 3          \* longest value of RAILWAY_API_TOKENS, in characters

(* A string the code takes apart or puts together is a sequence of pieces. *)
Labels == {<<>>, <<"prod">>}

(* ------------------------------ values --------------------------------- *)

Undefined == [name |-> "undefined", message |-> [prefix |-> "", parts |-> <<>>]]

Error(prefix, parts) ==
    [name |-> "Error", message |-> [prefix |-> prefix, parts |-> parts]]

TypeError(prefix, parts) ==
    [name |-> "TypeError", message |-> [prefix |-> prefix, parts |-> parts]]

SyntaxError(prefix, parts) ==
    [name |-> "SyntaxError", message |-> [prefix |-> prefix, parts |-> parts]]

Return(v) == [kind |-> "return", value |-> v]
Throw(e) == [kind |-> "throw", error |-> e]
NoOutcome == [kind |-> "none"]

Null == [owner |-> 0]

(* The responses the API can give the token t: the data of workspace t,   *)
(* a non-ok HTTP status, or an ok status carrying GraphQL errors.          *)
Responses(t) ==
    { [ok |-> TRUE, status |-> "200", text |-> "", json |-> TRUE, errors |-> <<>>,
       data |-> [owner |-> t]],
      [ok |-> FALSE, status |-> "401", text |-> "Unauthorized", json |-> FALSE,
       errors |-> <<>>, data |-> Null],
      [ok |-> TRUE, status |-> "200", text |-> "", json |-> TRUE,
       errors |-> <<"Not Found">>, data |-> Null] }

(* fetch rejects (no connection): there is no response. *)
FetchFailed == [ok |-> FALSE, status |-> "failed", text |-> "", json |-> FALSE,
                errors |-> <<>>, data |-> Null]

Messages == {"Not Found", "Not Authorized"}

ErrorLists == UNION {[1..n -> Messages] : n \in 0..MaxErrors}

(* Every response one request can get: a status (response.ok is status in  *)
(* 200..299) with a body that is either a JSON object, which may have data *)
(* and may have errors (an absent list and an empty one are both <<>>), or *)
(* not JSON at all; or no response.                                        *)
QueryResponses(t) ==
    LET statuses == {"200", "401", "500"}
        okOf(st) == st = "200"
    IN  { [ok |-> okOf(st), status |-> st, text |-> "body", json |-> TRUE,
           errors |-> es, data |-> d] :
              st \in statuses, es \in ErrorLists, d \in {Null, [owner |-> t]} }
        \cup { [ok |-> okOf(st), status |-> st, text |-> "<html>", json |-> FALSE,
                errors |-> <<>>, data |-> Null] : st \in statuses }
        \cup {FetchFailed}

(* await fetch(...) of a request the API never answers: the promise stays  *)
(* pending, and query has no timer and no AbortSignal.                     *)
Never == [ok |-> FALSE, status |-> "pending", text |-> "", json |-> FALSE,
          errors |-> <<>>, data |-> Null]

(* ---------------------------- RailwayClient ---------------------------- *)

RailwayClient(token, label) ==
    [token |-> token, label |-> IF label = <<>> THEN <<"default">> ELSE label]

(* Variant: data, when the body has it, is returned before errors is read. *)
queryDataFirst(response) ==
    IF response = FetchFailed
    THEN Throw(TypeError("fetch failed", <<>>))
    ELSE IF ~response.ok
    THEN Throw(Error("Railway API error", <<response.status, response.text>>))
    ELSE IF ~response.json
    THEN Throw(SyntaxError("Unexpected token", <<>>))
    ELSE IF response.data # Null
    THEN Return(response.data)
    ELSE IF Len(response.errors) > 0
         THEN Throw(Error("GraphQL errors", response.errors))
         ELSE Return(response.data)

(* await fetch; if (!response.ok) throw; await response.json(); if         *)
(* (json.errors && json.errors.length > 0) throw; return json.data         *)
query(response) ==
    IF response = FetchFailed
    THEN Throw(TypeError("fetch failed", <<>>))
    ELSE IF ~response.ok
    THEN Throw(Error("Railway API error", <<response.status, response.text>>))
    ELSE IF ~response.json
    THEN Throw(SyntaxError("Unexpected token", <<>>))
    ELSE IF Len(response.errors) > 0
         THEN Throw(Error("GraphQL errors", response.errors))
         ELSE Return(response.data)

(* rawQuery parses its variables before it queries; every other method    *)
(* is one query.                                                           *)
rawQuery(response, variables) ==
    IF variables = "invalid"
    THEN Throw(SyntaxError("Unexpected token", <<>>))
    ELSE query(response)

(* -------------------------- MultiRailwayClient ------------------------- *)

MultiRailwayClient(tokens) ==
    [p \in DOMAIN tokens |-> RailwayClient(tokens[p].token, tokens[p].label)]

(* The router methods, by the strategy their body hands its closure to. *)
TryEachOps ==
    {"listTeamProjects", "getProject", "deleteProject", "listServices",
     "createService", "deleteService", "listDeployments", "getDeployment",
     "redeploy", "deployService", "removeDeployment", "restartDeployment",
     "listEnvironments", "createEnvironment", "deleteEnvironment",
     "getVariables", "upsertVariables", "deleteVariable",
     "createServiceDomain", "createCustomDomain", "deleteServiceDomain",
     "getDeploymentLogs", "getBuildLogs", "createVolume"}
FromAllOps == {"listTeams", "listAllProjects", "listPersonalProjects"}
(* Variant: getProject is also wired to the first client. *)
SingleOpsWithGetProject == {"createProject", "introspect", "rawQuery", "getProject"}

SingleOps == {"createProject", "introspect", "rawQuery"}
Ops == TryEachOps \cup FromAllOps \cup SingleOps

(* The resource identifiers among the parameters of a router method. *)
IdParams(o) ==
    CASE o = "listTeamProjects" -> {"teamId"}
      [] o \in {"getProject", "deleteProject", "listServices", "createService",
                "listEnvironments", "createEnvironment"} -> {"projectId"}
      [] o = "deleteService" -> {"serviceId"}
      [] o = "deleteEnvironment" -> {"environmentId"}
      [] o \in {"getDeployment", "removeDeployment", "restartDeployment",
                "getDeploymentLogs", "getBuildLogs"} -> {"deploymentId"}
      [] o \in {"redeploy", "deployService", "createServiceDomain",
                "createCustomDomain", "deleteServiceDomain"} ->
             {"serviceId", "environmentId"}
      [] o \in {"listDeployments", "getVariables", "upsertVariables",
                "deleteVariable", "createVolume"} ->
             {"projectId", "serviceId", "environmentId"}
      [] OTHER -> {}

(* The RailwayClient method the closure of a router method calls:          *)
(* listAllProjects and listPersonalProjects both call listPersonalProjects, *)
(* every other router method calls the client method of its own name.      *)
ClientMethod(o) ==
    IF o \in {"listAllProjects", "listPersonalProjects"}
    THEN "listPersonalProjects"
    ELSE o

(* (r.data)?.me?.projects?.edges?.map((e) => e.node) || [] *)
ProjectNodes(data) == IF data = Null THEN <<>> ELSE <<[node |-> data]>>

(* What the router method o makes of the list fromAll returned. *)
MethodResult(o, out) ==
    IF o \in {"listAllProjects", "listPersonalProjects"} /\ out.kind = "return"
    THEN Return([workspaces |->
                    [k \in DOMAIN out.value |->
                        [workspace |-> out.value[k].workspace,
                         projects |-> ProjectNodes(out.value[k].data)]]])
    ELSE out

(* fn(client): the outcome of one client method for the router method o.  *)
ClientOp(client, o, a, be) ==
    IF ClientMethod(o) = "rawQuery"
    THEN rawQuery(be[client.token], a)
    ELSE query(be[client.token])

Args(o) == IF o = "rawQuery" THEN {"undefined", "valid", "invalid"} ELSE {"undefined"}

Calls == DOMAIN pc

Range(s) == {s[k] : k \in DOMAIN s}

(* clients[0] *)
First == 1

(* The outcome of the invocation of position p in call c: fn(client). *)
Invocation(c, p) == ClientOp(clients[p], op[c], arg[c], backend)

(* Variant: a call moves the client it starts from to the end of the list. *)
BeginRotating(c, o, a) ==
    /\ pc[c] = "idle"
    /\ op' = [op EXCEPT ![c] = o]
    /\ arg' = [arg EXCEPT ![c] = a]
    /\ clients' = IF Len(clients) = 0 THEN clients
                  ELSE Append(Tail(clients), Head(clients))
    /\ UNCHANGED <<backend, env, process>>

(* Variant: every await is raced against a timer, so it resumes anyway. *)
ResumesOrTimesOut(c, p) == p \in pending[c]

(* await fn(client) resumes once the promise of position p settles, which  *)
(* it does once fetch has a response.                                      *)
Resumes(c, p) == p \in pending[c] /\ backend[clients[p].token] # Never

Begin(c, o, a) ==
    /\ pc[c] = "idle"
    /\ op' = [op EXCEPT ![c] = o]
    /\ arg' = [arg EXCEPT ![c] = a]
    /\ UNCHANGED <<clients, backend, env, process>>

(* ------------------------------- tryEach -------------------------------- *)

(* Variant: the first error caught is kept. *)
CaughtKeepFirst(le, e) == IF le # Undefined THEN le ELSE e

(* lastError = e instanceof Error ? e : new Error(String(e)) *)
Caught(le, e) ==
    IF e.name \in {"Error", "TypeError", "SyntaxError"} THEN e ELSE Error(e.name, <<>>)

(* Variant: throw lastError, with no default. *)
ExhaustedNoDefault(le) == le

(* throw lastError || new Error("No clients available") *)
Exhausted(le) ==
    IF le # Undefined THEN le ELSE Error("No clients available", <<>>)

(* Variant: lastError is a field of the router, shared by the calls. *)
TryEachLoopShared(c, p, le) ==
    /\ lastError' = [d \in Calls |-> le]
    /\ IF p <= Len(clients)
       THEN /\ pc' = [pc EXCEPT ![c] = "await"]
            /\ invoked' = [invoked EXCEPT ![c] = Append(@, p)]
            /\ pending' = [pending EXCEPT ![c] = {p}]
            /\ UNCHANGED outcome
       ELSE /\ pc' = [pc EXCEPT ![c] = "done"]
            /\ outcome' = [outcome EXCEPT ![c] = Throw(Exhausted(le))]
            /\ pending' = [pending EXCEPT ![c] = {}]
            /\ UNCHANGED invoked

(* Variant: the loop calls fn on the next client too before it awaits. *)
TryEachLoopEager(c, p, le) ==
    /\ lastError' = [lastError EXCEPT ![c] = le]
    /\ IF p <= Len(clients)
       THEN /\ pc' = [pc EXCEPT ![c] = "await"]
            /\ invoked' = [invoked EXCEPT ![c] =
                  IF p + 1 <= Len(clients) /\ p + 1 \notin Range(@)
                  THEN @ \o <<p, p + 1>>
                  ELSE IF p \in Range(@) THEN @ ELSE Append(@, p)]
            /\ pending' = [pending EXCEPT ![c] = {p, p + 1} \cap (1..Len(clients))]
            /\ UNCHANGED outcome
       ELSE /\ pc' = [pc EXCEPT ![c] = "done"]
            /\ outcome' = [outcome EXCEPT ![c] = Throw(Exhausted(le))]
            /\ pending' = [pending EXCEPT ![c] = {}]
            /\ UNCHANGED invoked

(* The for loop at the iteration of position p, lastError being le. *)
TryEachLoop(c, p, le) ==
    /\ lastError' = [lastError EXCEPT ![c] = le]
    /\ IF p <= Len(clients)
       THEN /\ pc' = [pc EXCEPT ![c] = "await"]
            /\ invoked' = [invoked EXCEPT ![c] = Append(@, p)]
            /\ pending' = [pending EXCEPT ![c] = {p}]
            /\ UNCHANGED outcome
       ELSE /\ pc' = [pc EXCEPT ![c] = "done"]
            /\ outcome' = [outcome EXCEPT ![c] = Throw(Exhausted(le))]
            /\ pending' = [pending EXCEPT ![c] = {}]
            /\ UNCHANGED invoked

(* Variant: a success does not leave the loop unless it is the last client's. *)
TryEachNoReturn(c, p, o) ==
    IF o.kind = "return" /\ p = Len(clients)
    THEN /\ pc' = [pc EXCEPT ![c] = "done"]
         /\ outcome' = [outcome EXCEPT ![c] = Return(o.value)]
         /\ pending' = [pending EXCEPT ![c] = {}]
         /\ UNCHANGED <<invoked, lastError>>
    ELSE TryEachLoop(c, p + 1, IF o.kind = "throw" THEN o.error ELSE lastError[c])

(* Variant: no catch, the first failure leaves the loop. *)
TryEachNoCatch(c, p, o) ==
    /\ pc' = [pc EXCEPT ![c] = "done"]
    /\ outcome' = [outcome EXCEPT ![c] = o]
    /\ pending' = [pending EXCEPT ![c] = {}]
    /\ UNCHANGED <<invoked, lastError>>

(* try { return await fn(client) } catch (e) { lastError = ... } *)
TryEachSettled(c, p, o) ==
    IF o.kind = "return"
    THEN /\ pc' = [pc EXCEPT ![c] = "done"]
         /\ outcome' = [outcome EXCEPT ![c] = Return(o.value)]
         /\ pending' = [pending EXCEPT ![c] = {}]
         /\ UNCHANGED <<invoked, lastError>>
    ELSE TryEachLoop(c, p + 1, Caught(lastError[c], o.error))

(* tryEach run from the iteration of position p to its end over the list  *)
(* cl, with no other call in flight: what it returns or throws.            *)
RECURSIVE tryEachFrom(_, _, _, _, _, _)
tryEachFrom(cl, be, o, a, p, le) ==
    IF p > Len(cl)
    THEN Throw(Exhausted(le))
    ELSE LET r == ClientOp(cl[p], o, a, be)
         IN  IF r.kind = "return"
             THEN Return(r.value)
             ELSE tryEachFrom(cl, be, o, a, p + 1, Caught(le, r.error))

tryEachAlone(cl, be, o, a) == tryEachFrom(cl, be, o, a, First, Undefined)

tryEach(c, o) ==
    /\ o \in TryEachOps
    /\ Begin(c, o, "undefined")
    /\ TryEachLoop(c, First, Undefined)
    /\ UNCHANGED settled

SettleTryEach(c, p) ==
    /\ pc[c] = "await"
    /\ op[c] \in TryEachOps
    /\ Resumes(c, p)
    /\ settled' = [settled EXCEPT ![c] = Append(@, p)]
    /\ TryEachSettled(c, p, Invocation(c, p))
    /\ UNCHANGED <<clients, backend, op, arg, env, process>>

(* ------------------------------- fromAll -------------------------------- *)

(* Variant: one client at a time (a for loop awaiting each call). *)
DispatchOne(n, issued) == IF issued < n THEN <<issued + 1>> ELSE <<>>

(* this.clients.map(async (client) => ...): each async function runs up to *)
(* its await, so every client not yet invoked is invoked now.              *)
Dispatch(n, issued) == [k \in 1..(n - issued) |-> issued + k]

(* The promise of position p once the positions of setl have settled. *)
Promise(c, p, setl) ==
    IF p \notin Range(setl)
    THEN [status |-> "pending"]
    ELSE LET o == Invocation(c, p)
         IN  IF o.kind = "return"
             THEN [status |-> "fulfilled",
                   value |-> [workspace |-> clients[p].label, data |-> o.value]]
             ELSE [status |-> "rejected", reason |-> o.error]

(* Variant: resolves with the first promise settled (Promise.race). *)
JoinedAny(n, setl) == n = 0 \/ Len(setl) >= 1

(* Promise.allSettled resolves once every promise has settled ...          *)
Joined(n, setl) == Len(setl) = n

(* Variant: results in the order of settlement. *)
allSettledInSettleOrder(promises, order) == [k \in DOMAIN order |-> promises[order[k]]]

(* ... with one result per promise, in the order of the promises.          *)
allSettled(promises, order) == [p \in DOMAIN promises |-> promises[p]]

RECURSIVE fulfilled(_)
fulfilled(results) ==
    IF Len(results) = 0
    THEN <<>>
    ELSE LET r == Head(results)
         IN  (IF r.status = "fulfilled" THEN <<r.value>> ELSE <<>>)
                 \o fulfilled(Tail(results))

(* Variant: Promise.all, which rejects with the first rejection. *)
FromAllOutcomeAll(results) ==
    IF \E k \in DOMAIN results : results[k].status = "rejected"
    THEN LET k == CHOOSE j \in DOMAIN results :
                      /\ results[j].status = "rejected"
                      /\ \A i \in 1..(j - 1) : results[i].status # "rejected"
         IN  Throw(results[k].reason)
    ELSE Return(fulfilled(results))

(* return fulfilled *)
FromAllOutcome(results) == Return(fulfilled(results))

(* The call once the positions of setl have settled. *)
FromAllStep(c, setl) ==
    LET n == Len(clients)
        inv == invoked[c] \o Dispatch(n, Len(invoked[c]))
        promises == [p \in 1..n |-> Promise(c, p, setl)]
    IN  /\ invoked' = [invoked EXCEPT ![c] = inv]
        /\ settled' = [settled EXCEPT ![c] = setl]
        /\ pending' = [pending EXCEPT ![c] = Range(inv) \ Range(setl)]
        /\ IF Joined(n, setl)
           THEN /\ pc' = [pc EXCEPT ![c] = "done"]
                /\ outcome' = [outcome EXCEPT ![c] =
                      MethodResult(op'[c], FromAllOutcome(allSettled(promises, setl)))]
           ELSE /\ pc' = [pc EXCEPT ![c] = "await"]
                /\ UNCHANGED outcome
        /\ UNCHANGED lastError

fromAll(c, o) ==
    /\ o \in FromAllOps
    /\ Begin(c, o, "undefined")
    /\ FromAllStep(c, <<>>)

SettleFromAll(c, p) ==
    /\ pc[c] = "await"
    /\ op[c] \in FromAllOps
    /\ Resumes(c, p)
    /\ UNCHANGED <<clients, backend, op, arg, env, process>>
    /\ FromAllStep(c, Append(settled[c], p))

(* ---------------------------- single target ----------------------------- *)

(* Variant: a failure of the first client falls back to the next one. *)
SingleSettledFallback(c, p, o) == TryEachSettled(c, p, o)

(* return this.clients[0].createProject(...): the promise of the client    *)
(* method is the promise of the router method.                             *)
SingleSettled(c, p, o) ==
    /\ pc' = [pc EXCEPT ![c] = "done"]
    /\ outcome' = [outcome EXCEPT ![c] = o]
    /\ pending' = [pending EXCEPT ![c] = {}]
    /\ UNCHANGED <<invoked, lastError>>

(* this.clients[0] is undefined on an empty list: reading a property of it *)
(* throws a TypeError inside the async method.                             *)
single(c, o, a) ==
    /\ o \in SingleOps
    /\ a \in Args(o)
    /\ Begin(c, o, a)
    /\ IF First <= Len(clients)
       THEN /\ pc' = [pc EXCEPT ![c] = "await"]
            /\ invoked' = [invoked EXCEPT ![c] = <<First>>]
            /\ pending' = [pending EXCEPT ![c] = {First}]
            /\ UNCHANGED outcome
       ELSE /\ pc' = [pc EXCEPT ![c] = "done"]
            /\ outcome' = [outcome EXCEPT ![c] =
                  Throw(TypeError("Cannot read properties of undefined", <<o>>))]
            /\ UNCHANGED <<invoked, pending>>
    /\ UNCHANGED <<settled, lastError>>

SettleSingle(c, p) ==
    /\ pc[c] = "await"
    /\ op[c] \in SingleOps
    /\ Resumes(c, p)
    /\ settled' = [settled EXCEPT ![c] = Append(@, p)]
    /\ SingleSettled(c, p, Invocation(c, p))
    /\ UNCHANGED <<clients, backend, op, arg, env, process>>

(* ------------------------------ bootstrap ------------------------------- *)

(* A variable of process.env: unset (undefined) or set to a string, which  *)
(* is a sequence of characters.                                            *)
Unset == [set |-> FALSE, value |-> <<>>]

Set(value) == [set |-> TRUE, value |-> value]

(* if (v): undefined and "" are falsy. *)
Truthy(v) == v.set /\ Len(v.value) > 0

(* key.startsWith("RAILWAY_TOKEN_"): a key is its prefix and what follows. *)
startsWith(key, prefix) == key.prefix = prefix

(* key.replace("RAILWAY_TOKEN_", ""): the first occurrence, the prefix. *)
replacePrefix(key) == key.rest

toLowerCase(str) ==
    [i \in DOMAIN str |->
        CASE str[i] = "A" -> "a"
          [] str[i] = "B" -> "b"
          [] OTHER -> str[i]]

(* .replace(/_/g, " ") *)
replaceUnderscores(str) == [i \in DOMAIN str |-> IF str[i] = "_" THEN " " ELSE str[i]]

(* for (const [key, value] of Object.entries(process.env)) if (...) push *)
RECURSIVE namedTokens(_)
namedTokens(entries) ==
    IF Len(entries) = 0
    THEN <<>>
    ELSE LET key == Head(entries).key
             value == Head(entries).value
         IN  (IF startsWith(key, "RAILWAY_TOKEN_") /\ Len(value) > 0
              THEN <<[token |-> value,
                      label |-> replaceUnderscores(toLowerCase(replacePrefix(key)))]>>
              ELSE <<>>)
             \o namedTokens(Tail(entries))

(* str.split(",") *)
RECURSIVE split(_)
split(str) ==
    IF \A i \in DOMAIN str : str[i] # ","
    THEN <<str>>
    ELSE LET i == CHOOSE i \in DOMAIN str :
                      str[i] = "," /\ \A j \in 1..(i - 1) : str[j] # ","
         IN  <<SubSeq(str, 1, i - 1)>> \o split(SubSeq(str, i + 1, Len(str)))

(* t.trim() *)
RECURSIVE trim(_)
trim(str) ==
    IF Len(str) = 0 THEN str
    ELSE IF Head(str) = " " THEN trim(Tail(str))
    ELSE IF str[Len(str)] = " " THEN trim(SubSeq(str, 1, Len(str) - 1))
    ELSE str

(* .map((t) => t.trim()).filter(Boolean) *)
trimmedParts(str) ==
    LET parts == split(str)
        trimmed == [i \in DOMAIN parts |-> trim(parts[i])]
        NonEmpty(t) == Len(t) > 0
    IN  SelectSeq(trimmed, NonEmpty)

(* parts.forEach((t, i) => tokens.push({ token: t, label: `workspace-${i + 1}` })) *)
listTokens(parts) ==
    [i \in DOMAIN parts |-> [token |-> parts[i], label |-> <<"workspace-", ToString(i)>>]]

(* Variant: every source that is set adds its tokens. *)
loadTokensFromAll(e) ==
    namedTokens(e.named)
    \o (IF Truthy(e.RAILWAY_API_TOKENS)
        THEN listTokens(trimmedParts(e.RAILWAY_API_TOKENS.value)) ELSE <<>>)
    \o (IF Truthy(e.RAILWAY_API_TOKEN)
        THEN <<[token |-> e.RAILWAY_API_TOKEN.value, label |-> <<"default">>]>> ELSE <<>>)

loadTokens(e) ==
    LET named == namedTokens(e.named)
        listed == IF Len(named) = 0 /\ Truthy(e.RAILWAY_API_TOKENS)
                  THEN named \o listTokens(trimmedParts(e.RAILWAY_API_TOKENS.value))
                  ELSE named
    IN  IF Len(listed) = 0 /\ Truthy(e.RAILWAY_API_TOKEN)
        THEN listed \o <<[token |-> e.RAILWAY_API_TOKEN.value, label |-> <<"default">>]>>
        ELSE listed

(* const tokens = loadTokens(); if (tokens.length === 0) process.exit(1);  *)
(* const railway = new MultiRailwayClient(tokens)                          *)
bootstrap ==
    /\ process.state = "loading"
    /\ LET tokens == loadTokens(env)
       IN  IF Len(tokens) = 0
           THEN /\ process' = [state |-> "exited", code |-> 1]
                /\ UNCHANGED clients
           ELSE /\ process' = [state |-> "serving"]
                /\ clients' = MultiRailwayClient(tokens)
    /\ UNCHANGED <<backend, op, arg, pc, invoked, pending, settled, lastError,
                   outcome, env>>

(* ----------------------------- tool handlers ---------------------------- *)

(* ok(data): one text item, JSON.stringify(data, null, 2). *)
ok(data) == [content |-> <<[type |-> "text", text |-> [stringify |-> data]]>>]

(* err(error): isError, and one text item, `Error: ${message}`. *)
err(error) ==
    LET message == IF error.name \in {"Error", "TypeError", "SyntaxError"}
                   THEN error.message
                   ELSE [prefix |-> error.name, parts |-> <<>>]
    IN  [isError |-> TRUE,
         content |-> <<[type |-> "text",
                        text |-> [prefix |-> "Error: ", message |-> message]]>>]

(* Variant: a handler with no catch; the throw leaves the handler. *)
HandlerNoCatch(o) == IF o.kind = "return" THEN ok(o.value) ELSE [uncaught |-> o.error]

(* try { return ok(await railway.method(...)) } catch (e) { return err(e) } *)
Handler(o) == IF o.kind = "return" THEN ok(o.value) ELSE err(o.error)

(* What the tool invocation c resolves to. *)
Response(c) == Handler(outcome[c])

(* set_variables parses its `variables` string inside the try, before it   *)
(* calls the router: on invalid JSON the router is not called.             *)
setVariablesInvalid(c) ==
    /\ pc[c] = "idle"
    /\ arg' = [arg EXCEPT ![c] = "invalid"]
    /\ pc' = [pc EXCEPT ![c] = "done"]
    /\ outcome' = [outcome EXCEPT ![c] = Throw(SyntaxError("Unexpected token", <<>>))]
    /\ UNCHANGED <<clients, backend, op, invoked, pending, settled, lastError,
                   env, process>>

(* ---------------------------- specification ----------------------------- *)

(* The router built from a token list by whoever imports the class: the   *)
(* environment is not read.                                                *)
Imported ==
    /\ env = [named |-> <<>>, RAILWAY_API_TOKENS |-> Unset, RAILWAY_API_TOKEN |-> Unset]
    /\ process = [state |-> "serving"]

TokenLists(n) ==
    { [p \in 1..n |-> [token |-> p, label |-> ls[p]]] : ls \in [1..n -> Labels] }

Backends(n) ==
    { be \in [1..n -> UNION {Responses(t) : t \in 1..n}] :
        \A t \in 1..n : be[t] \in Responses(t) }

(* The router as constructed from a token list, with no call made yet.     *)
(* The server exits on an empty token list before it constructs the        *)
(* router; the exported class itself accepts one, so the list may be empty. *)
InitWith(maxClients, ids) ==
    /\ \E n \in 0..maxClients :
          /\ \E tokens \in TokenLists(n) : clients = MultiRailwayClient(tokens)
          /\ backend \in Backends(n)
    /\ op = [c \in ids |-> "none"]
    /\ arg = [c \in ids |-> "undefined"]
    /\ pc = [c \in ids |-> "idle"]
    /\ invoked = [c \in ids |-> <<>>]
    /\ pending = [c \in ids |-> {}]
    /\ settled = [c \in ids |-> <<>>]
    /\ lastError = [c \in ids |-> Undefined]
    /\ outcome = [c \in ids |-> NoOutcome]
    /\ Imported

Init == InitWith(MaxClients, {1})

CallTryEach == \E c \in Calls : \E o \in Ops : tryEach(c, o)

TryEachSettles == \E c \in Calls : \E p \in 1..Len(clients) : SettleTryEach(c, p)

CallFromAll == \E c \in Calls : \E o \in Ops : fromAll(c, o)

FromAllSettles == \E c \in Calls : \E p \in 1..Len(clients) : SettleFromAll(c, p)

CallSingle == \E c \in Calls : \E o \in Ops : \E a \in Args(o) : single(c, o, a)

SingleSettles == \E c \in Calls : \E p \in 1..Len(clients) : SettleSingle(c, p)

SetVariablesRejects == \E c \in Calls : setVariablesInvalid(c)

(* The router over one label, where the API may leave a token's requests   *)
(* unanswered.                                                             *)
InitHung ==
    /\ \E n \in 0..MaxClients :
          /\ clients = MultiRailwayClient([p \in 1..n |-> [token |-> p, label |-> <<>>]])
          /\ backend \in [1..n -> UNION {Responses(t) : t \in 1..n} \cup {Never}]
          /\ \A t \in 1..n : backend[t] \in Responses(t) \cup {Never}
    /\ op = [c \in {1} |-> "none"]
    /\ arg = [c \in {1} |-> "undefined"]
    /\ pc = [c \in {1} |-> "idle"]
    /\ invoked = [c \in {1} |-> <<>>]
    /\ pending = [c \in {1} |-> {}]
    /\ settled = [c \in {1} |-> <<>>]
    /\ lastError = [c \in {1} |-> Undefined]
    /\ outcome = [c \in {1} |-> NoOutcome]
    /\ Imported

(* The router over one label with several calls made on it: the handlers   *)
(* are async, so a call may start while others are suspended.              *)
InitConc ==
    /\ \E n \in 0..ConcClients :
          /\ clients = MultiRailwayClient([p \in 1..n |-> [token |-> p, label |-> <<>>]])
          /\ backend \in Backends(n)
    /\ op = [c \in 1..MaxCalls |-> "none"]
    /\ arg = [c \in 1..MaxCalls |-> "undefined"]
    /\ pc = [c \in 1..MaxCalls |-> "idle"]
    /\ invoked = [c \in 1..MaxCalls |-> <<>>]
    /\ pending = [c \in 1..MaxCalls |-> {}]
    /\ settled = [c \in 1..MaxCalls |-> <<>>]
    /\ lastError = [c \in 1..MaxCalls |-> Undefined]
    /\ outcome = [c \in 1..MaxCalls |-> NoOutcome]
    /\ Imported

(* One router method of each strategy. *)
CallGetProject == \E c \in Calls : tryEach(c, "getProject")

CallListTeams == \E c \in Calls : fromAll(c, "listTeams")

CallCreateProject == \E c \in Calls : single(c, "createProject", "undefined")

NextConc ==
    \/ CallGetProject
    \/ TryEachSettles
    \/ CallListTeams
    \/ FromAllSettles
    \/ CallCreateProject
    \/ SingleSettles

(* The router of one token, the API answering its requests in any way. *)
InitQuery ==
    /\ clients = MultiRailwayClient(<<[token |-> 1, label |-> <<>>]>>)
    /\ backend \in [{1} -> QueryResponses(1)]
    /\ op = [c \in {1} |-> "none"]
    /\ arg = [c \in {1} |-> "undefined"]
    /\ pc = [c \in {1} |-> "idle"]
    /\ invoked = [c \in {1} |-> <<>>]
    /\ pending = [c \in {1} |-> {}]
    /\ settled = [c \in {1} |-> <<>>]
    /\ lastError = [c \in {1} |-> Undefined]
    /\ outcome = [c \in {1} |-> NoOutcome]
    /\ Imported

(* The variables loadTokens can meet: RAILWAY_TOKEN_<suffix> and other     *)
(* RAILWAY_ keys, in the order of the environment, and the two lists.      *)
Keys ==
    { [prefix |-> "RAILWAY_TOKEN_", rest |-> <<"A", "_", "b">>],
      [prefix |-> "RAILWAY_TOKEN_", rest |-> <<>>],
      [prefix |-> "RAILWAY_", rest |-> <<"A">>] }

Values == {<<>>, <<"x">>}

RECURSIVE Strings(_, _)
Strings(alphabet, n) ==
    IF n = 0 THEN {<<>>}
    ELSE Strings(alphabet, n - 1)
         \cup {Append(str, ch) : str \in Strings(alphabet, n - 1), ch \in alphabet}

Envs ==
    { [named |-> named, RAILWAY_API_TOKENS |-> list, RAILWAY_API_TOKEN |-> one] :
        named \in { es \in UNION {[1..n -> [key : Keys, value : Values]] : n \in 0..MaxNamed} :
                        \A i, j \in DOMAIN es : es[i].key = es[j].key => i = j },
        list \in {Unset} \cup {Set(str) : str \in Strings({"a", "b", ",", " "}, MaxLen)},
        one \in {Unset, Set(<<>>), Set(<<"c">>)} }

(* The process started, nothing of it run yet: there is no router. *)
InitBoot ==
    /\ env \in Envs
    /\ process = [state |-> "loading"]
    /\ clients = <<>>
    /\ backend = <<>>
    /\ op = [c \in {1} |-> "none"]
    /\ arg = [c \in {1} |-> "undefined"]
    /\ pc = [c \in {1} |-> "idle"]
    /\ invoked = [c \in {1} |-> <<>>]
    /\ pending = [c \in {1} |-> {}]
    /\ settled = [c \in {1} |-> <<>>]
    /\ lastError = [c \in {1} |-> Undefined]
    /\ outcome = [c \in {1} |-> NoOutcome]

Bootstrap == bootstrap

NextBoot == Bootstrap

Next ==
    \/ CallTryEach
    \/ TryEachSettles
    \/ CallFromAll
    \/ FromAllSettles
    \/ CallSingle
    \/ SingleSettles
    \/ SetVariablesRejects

Spec == Init /\ [][Next]_vars

SpecHung == InitHung /\ [][Next]_vars

SpecConc == InitConc /\ [][NextConc]_vars

SpecQuery == InitQuery /\ [][Next]_vars

SpecBoot == InitBoot /\ [][NextBoot]_vars

(* ------------------------------ properties ------------------------------ *)

N == Len(clients)

Upto(n) == [k \in 1..n |-> k]

(* The response of the workspace of the client at position p. *)
Answer(p) == backend[clients[p].token]

Succeeds(p) == Answer(p).ok /\ Len(Answer(p).errors) = 0

(* The error kinds of the specification, told apart by the message. *)
ErrorKind(e) ==
    IF e.message.prefix = "Railway API error" THEN "TransportError"
    ELSE IF e.message.prefix = "GraphQL errors" THEN "ProtocolError"
    ELSE IF e.name = "Error" /\ e.message.prefix = "No clients available"
         THEN "AggregateFailure"
         ELSE "other"

Returned(c, v) == outcome[c].kind = "return" /\ outcome[c].value = v

Threw(c, e) == outcome[c].kind = "throw" /\ outcome[c].error = e

(* C1: a fallback call invokes the clients in list order from the first,  *)
(* once each, never one that follows a client that succeeded; when the     *)
(* first client that succeeds is at position k, the call returns the data  *)
(* of that client's workspace and has invoked exactly positions 1..k.      *)
C1_FallbackShortCircuit ==
    \A c \in Calls :
        op[c] \in TryEachOps =>
            /\ invoked[c] = Upto(Len(invoked[c]))
            /\ \A p \in Range(invoked[c]) : \A q \in 1..(p - 1) : ~Succeeds(q)
            /\ (pc[c] = "done" /\ \E k \in 1..N : Succeeds(k)) =>
                   LET k == CHOOSE j \in 1..N :
                                Succeeds(j) /\ \A q \in 1..(j - 1) : ~Succeeds(q)
                   IN  /\ Returned(c, Answer(k).data)
                       /\ invoked[c] = Upto(k)
                       /\ settled[c] = Upto(k)

(* Three clients, the first fails, the second and the third would succeed: *)
(* the call is over having invoked the first two.                          *)
C1_Witness ==
    \E c \in Calls :
        /\ op[c] \in TryEachOps /\ pc[c] = "done"
        /\ N = 3 /\ ~Succeeds(1) /\ Succeeds(2) /\ Succeeds(3)
        /\ invoked[c] = <<1, 2>>
        /\ outcome[c].kind = "return"

AllFail == \A p \in 1..N : ~Succeeds(p)

(* C2: when every client of a non-empty list fails, a fallback call ends   *)
(* by throwing, after it has invoked every client once, in list order,     *)
(* and each invocation has settled.                                        *)
C2_FallbackExhaustion ==
    \A c \in Calls :
        (op[c] \in TryEachOps /\ N > 0 /\ AllFail) =>
            /\ outcome[c].kind # "return"
            /\ outcome[c].kind = "throw" => (invoked[c] = Upto(N) /\ settled[c] = Upto(N))
            /\ pc[c] = "done" => outcome[c].kind = "throw"

C2_Witness ==
    \E c \in Calls :
        /\ op[c] \in TryEachOps /\ pc[c] = "done"
        /\ N = 3 /\ AllFail
        /\ ~Answer(1).ok /\ Answer(2).ok /\ ~Answer(3).ok
        /\ outcome[c].kind = "throw"
        /\ invoked[c] = <<1, 2, 3>>

ExhaustedCall(c) == op[c] \in TryEachOps /\ pc[c] = "done" /\ N > 0 /\ AllFail

C4_FallbackEmpty ==
    \A c \in Calls :
        (op[c] \in TryEachOps /\ N = 0) =>
            /\ pc[c] = "done"
            /\ Threw(c, Error("No clients available", <<>>))
            /\ ErrorKind(outcome[c].error) = "AggregateFailure"
            /\ invoked[c] = <<>> /\ settled[c] = <<>> /\ pending[c] = {}

C4_Witness ==
    \E c \in Calls :
        /\ op[c] \in TryEachOps /\ N = 0 /\ pc[c] = "done"
        /\ outcome[c].kind = "throw"

(* The entries a merge over the clients is to hold: one per client whose   *)
(* workspace answers with data, in list order.                             *)
MergedFrom(p) ==
    IF Succeeds(p)
    THEN <<[workspace |-> clients[p].label, data |-> Answer(p).data]>>
    ELSE <<>>

RECURSIVE MergedUpto(_)
MergedUpto(n) == IF n = 0 THEN <<>> ELSE MergedUpto(n - 1) \o MergedFrom(n)

(* The tagged entries a fan-out call returned: the list itself, or for the *)
(* project listings the list under `workspaces`, one project node standing *)
(* for the data of its workspace.                                          *)
Entries(c) ==
    IF op[c] = "listTeams"
    THEN outcome[c].value
    ELSE LET ws == outcome[c].value.workspaces
         IN  [k \in DOMAIN ws |->
                 [workspace |-> ws[k].workspace,
                  data |-> IF Len(ws[k].projects) = 0
                           THEN Null
                           ELSE ws[k].projects[1].node]]

(* C5: a fan-out call never throws; it returns one entry {workspace: the   *)
(* client's label, data: its workspace's data} per client that succeeded,  *)
(* in list order whatever the order of settlement, and none for a client   *)
(* that failed; clients of equal labels keep separate entries.             *)
C5_FanOutPartialFailure ==
    \A c \in Calls :
        op[c] \in FromAllOps =>
            /\ outcome[c].kind # "throw"
            /\ pc[c] = "done" => (outcome[c].kind = "return" /\ Entries(c) = MergedUpto(N))

(* Three clients, the first and the third labelled alike; the second       *)
(* fails; the invocations settle in the order third, second, first.        *)
C5_Witness ==
    \E c \in Calls :
        /\ op[c] = "listTeams" /\ pc[c] = "done"
        /\ N = 3 /\ Succeeds(1) /\ ~Succeeds(2) /\ Succeeds(3)
        /\ clients[1].label = clients[3].label
        /\ settled[c] = <<3, 2, 1>>
        /\ outcome[c].kind = "return"
        /\ Len(outcome[c].value) = 2
        /\ outcome[c].value[1].data = [owner |-> 1]

(* C6: when every client fails, or there is none, a fan-out call returns   *)
(* the empty list and throws nothing.                                      *)
C6_FanOutTotalFailure ==
    \A c \in Calls :
        (op[c] \in FromAllOps /\ pc[c] = "done" /\ AllFail) =>
            /\ outcome[c].kind = "return"
            /\ Len(Entries(c)) = 0

C6_Witness ==
    \E c \in Calls :
        /\ op[c] \in FromAllOps /\ pc[c] = "done"
        /\ N = 3 /\ AllFail /\ ~Answer(1).ok /\ Answer(2).ok
        /\ settled[c] = <<2, 3, 1>>
        /\ outcome[c].kind = "return"

(* C7: a fan-out call invokes every client exactly once and has no outcome *)
(* until every one of its invocations has settled.                         *)
C7_FanOutJoin ==
    \A c \in Calls :
        (op[c] \in FromAllOps /\ pc[c] # "idle") =>
            /\ Len(invoked[c]) = N /\ Range(invoked[c]) = 1..N
            /\ Len(settled[c]) = Cardinality(Range(settled[c]))
            /\ pending[c] = (1..N) \ Range(settled[c])
            /\ pending[c] # {} => (pc[c] = "await" /\ outcome[c] = NoOutcome)
            /\ pc[c] = "done" => (Range(settled[c]) = 1..N /\ outcome[c] # NoOutcome)

(* One invocation has succeeded, one has failed, the third is outstanding: *)
(* the call is still suspended.                                            *)
C7_Witness ==
    \E c \in Calls :
        /\ op[c] \in FromAllOps /\ pc[c] = "await"
        /\ N = 3 /\ Len(settled[c]) = 2 /\ pending[c] = {2}
        /\ Succeeds(1) /\ ~Succeeds(3)
        /\ outcome[c] = NoOutcome

(* C8: the step that makes a fan-out call issues the invocation of every   *)
(* client: after it all N are outstanding at once and none has settled.    *)
C8_FanOutConcurrentDispatch ==
    [][\A c \in Calls :
          (pc[c] = "idle" /\ op'[c] \in FromAllOps) =>
              /\ pending'[c] = 1..N
              /\ invoked'[c] = Upto(N)
              /\ settled'[c] = <<>>]_vars

C8_Witness ==
    \E c \in Calls :
        /\ op[c] \in FromAllOps /\ pc[c] = "await"
        /\ N = 3 /\ pending[c] = {1, 2, 3} /\ settled[c] = <<>>

(* What the client at position p gives the single-target call c. *)
FirstOutcome(c, p) ==
    IF op[c] = "rawQuery" /\ arg[c] = "invalid"
    THEN Throw(SyntaxError("Unexpected token", <<>>))
    ELSE IF Succeeds(p)
         THEN Return(Answer(p).data)
         ELSE Throw(query(Answer(p)).error)

(* C9: on a non-empty list a single-target call invokes the first client   *)
(* once and no other client, whether it succeeds or fails, and its outcome *)
(* is that client's outcome: on failure the very error of that client.     *)
C9_SingleTargetFirstOnly ==
    \A c \in Calls :
        (op[c] \in SingleOps /\ N > 0) =>
            /\ invoked[c] = <<1>>
            /\ pc[c] = "done" => (settled[c] = <<1>> /\ outcome[c] = FirstOutcome(c, 1))

(* The first client fails and the second would succeed: createProject      *)
(* throws the first client's error.                                        *)
C9_Witness ==
    \E c \in Calls :
        /\ op[c] = "createProject" /\ pc[c] = "done"
        /\ N = 3 /\ ~Succeeds(1) /\ Succeeds(2)
        /\ invoked[c] = <<1>>
        /\ ErrorKind(outcome[c].error) = "TransportError"

(* C10 as stated: on an empty list a single-target call throws the         *)
(* router's own "no clients" error.                                        *)
C10_SingleTargetEmpty ==
    \A c \in Calls :
        (op[c] \in SingleOps /\ N = 0 /\ pc[c] = "done") =>
            /\ outcome[c].kind = "throw"
            /\ ErrorKind(outcome[c].error) = "AggregateFailure"

(* The methods the README calls create operations. *)
CreateOps ==
    {"createProject", "createService", "createEnvironment",
     "createServiceDomain", "createCustomDomain", "createVolume"}

(* C11 as stated: a create operation is sent to the first client and to    *)
(* no other.                                                               *)
C11_CreateUsesFirstToken ==
    \A c \in Calls :
        op[c] \in CreateOps => \A p \in Range(invoked[c]) : p = 1

(* The first position that succeeds, or the last position when none does. *)
LastTried ==
    IF \E k \in 1..N : Succeeds(k)
    THEN CHOOSE j \in 1..N : Succeeds(j) /\ \A q \in 1..(j - 1) : ~Succeeds(q)
    ELSE N

(* The strategy the specification assigns a method. *)
AssignedStrategy(o) ==
    IF IdParams(o) # {} THEN "fallback"
    ELSE IF o \in {"listTeams", "listAllProjects", "listPersonalProjects"}
         THEN "fan-out-merge"
         ELSE IF o \in {"createProject", "introspect", "rawQuery"}
              THEN "single-target"
              ELSE "none"

(* What a call of each strategy has outstanding once made, and has invoked *)
(* once over.                                                              *)
FirstOutstanding(s) == IF s = "fan-out-merge" THEN 1..N ELSE {1} \cap (1..N)

AllInvoked(s) ==
    IF s = "fan-out-merge" THEN Upto(N)
    ELSE IF s = "fallback" THEN Upto(LastTried)
         ELSE Upto(IF N = 0 THEN 0 ELSE 1)

C13_ErrorBoundary ==
    \A c \in Calls :
        pc[c] = "done" =>
            LET r == Response(c)
            IN  /\ "uncaught" \notin DOMAIN r
                /\ Len(r.content) = 1 /\ r.content[1].type = "text"
                /\ outcome[c].kind = "return" =>
                       /\ "isError" \notin DOMAIN r
                       /\ r.content[1].text = [stringify |-> outcome[c].value]
                /\ outcome[c].kind = "throw" =>
                       /\ "isError" \in DOMAIN r /\ r.isError
                       /\ r.content[1].text.prefix = "Error: "
                       /\ r.content[1].text.message = outcome[c].error.message
                /\ outcome[c].kind \in {"return", "throw"}

(* createProject on an empty client list: the TypeError is caught and      *)
(* becomes an error result.                                                *)
C13_Witness ==
    \E c \in Calls :
        /\ op[c] = "createProject" /\ pc[c] = "done" /\ N = 0
        /\ outcome[c].error.name = "TypeError"
        /\ Response(c).isError

(* C14: a fallback call has at most one invocation outstanding, and every  *)
(* client it has invoked but the latest has settled, as a failure.         *)
C14_FallbackSequential ==
    \A c \in Calls :
        op[c] \in TryEachOps =>
            /\ Cardinality(pending[c]) <= 1
            /\ pending[c] \subseteq Range(invoked[c])
            /\ \A k \in 1..(Len(invoked[c]) - 1) :
                   /\ invoked[c][k] \in Range(settled[c])
                   /\ invoked[c][k] \notin pending[c]
                   /\ ~Succeeds(invoked[c][k])

(* The first client has failed and the second is outstanding, alone. *)
C14_Witness ==
    \E c \in Calls :
        /\ op[c] \in TryEachOps /\ pc[c] = "await"
        /\ N = 3 /\ invoked[c] = <<1, 2>> /\ settled[c] = <<1>>
        /\ pending[c] = {2}

Perms(n) == {f \in [1..n -> 1..n] : \A i, j \in 1..n : f[i] = f[j] => i = j}

Permuted(cl, f) == [p \in 1..Len(cl) |-> cl[f[p]]]

AtMostOneSucceeds == Cardinality({p \in 1..N : Succeeds(p)}) <= 1

SameOutcome(x, y) ==
    /\ x.kind = y.kind
    /\ x.kind = "return" => x.value = y.value
    /\ x.kind = "throw" => x.error = y.error

(* A fallback call that is over, no two of the clients succeeding. *)
OwnedByOne(c) == op[c] \in TryEachOps /\ pc[c] = "done" /\ AtMostOneSucceeds

(* C15 as stated: when at most one client can succeed, a fallback call     *)
(* ends the same way, value or failure, over every permutation of the      *)
(* client list.                                                            *)
C15_SameOutcomeAnyOrder ==
    \A c \in Calls :
        OwnedByOne(c) =>
            \A f \in Perms(N) :
                SameOutcome(tryEachAlone(Permuted(clients, f), backend, op[c], arg[c]),
                            outcome[c])

(* C15, amended: over every permutation the call returns the same value    *)
(* when one client succeeds, and throws when none does; what it throws is  *)
(* the error of the client that is last in that permutation.               *)
C15_SameValueAnyOrder ==
    \A c \in Calls :
        OwnedByOne(c) =>
            \A f \in Perms(N) :
                LET o == tryEachAlone(Permuted(clients, f), backend, op[c], arg[c])
                IN  /\ o.kind = outcome[c].kind
                    /\ o.kind = "return" => o.value = outcome[c].value
                    /\ (o.kind = "throw" /\ N > 0) =>
                           o.error = query(Answer(f[N])).error

(* Only the last of three clients succeeds: the call has tried all three. *)
C15_Witness ==
    \E c \in Calls :
        /\ OwnedByOne(c)
        /\ N = 3 /\ ~Succeeds(1) /\ ~Succeeds(2) /\ Succeeds(3)
        /\ invoked[c] = <<1, 2, 3>>
        /\ Returned(c, [owner |-> 3])

(* C16: for every workspace that answered, the result of listAllProjects  *)
(* holds that workspace's personal projects and, grouped by team, the      *)
(* projects of its teams.                                                  *)
C16_ListsPersonalAndTeamProjects ==
    \A c \in Calls :
        (op[c] = "listAllProjects" /\ pc[c] = "done" /\ outcome[c].kind = "return") =>
            \A k \in DOMAIN outcome[c].value.workspaces :
                LET entry == outcome[c].value.workspaces[k]
                IN  {"personal", "teams"} \subseteq DOMAIN entry
                    \/ {"projects", "teams"} \subseteq DOMAIN entry

(* C17: no step of a router call, under any strategy and whether it ends  *)
(* in a value or in an error, adds, removes, reorders or replaces a client *)
(* or changes a client's label.                                            *)
C17_ClientsImmutable == [][clients' = clients]_vars

(* A fallback call has failed over three clients. *)
C17_Witness ==
    \E c \in Calls :
        /\ N = 3 /\ pc[c] = "done" /\ op[c] \in TryEachOps
        /\ outcome[c].kind = "throw" /\ Len(settled[c]) = 3

Hung(p) == Answer(p) = Never

(* C18: an invocation whose request is never answered stays outstanding    *)
(* and its call never returns: a fan-out call with such an invocation is   *)
(* not over even when every other one has settled, and a fallback call     *)
(* invokes no later client.                                                *)
C18_HungInvocationBlocks ==
    \A c \in Calls :
        \A k \in DOMAIN invoked[c] :
            Hung(invoked[c][k]) =>
                /\ invoked[c][k] \in pending[c]
                /\ invoked[c][k] \notin Range(settled[c])
                /\ pc[c] = "await"
                /\ outcome[c] = NoOutcome
                /\ op[c] \in TryEachOps => k = Len(invoked[c])

(* A fan-out call over three clients: the second never answers, the other *)
(* two have settled, and the call is still suspended.                      *)
C18_Witness ==
    \E c \in Calls :
        /\ op[c] \in FromAllOps /\ N = 3
        /\ Hung(2) /\ ~Hung(1) /\ ~Hung(3)
        /\ Range(settled[c]) = {1, 3}
        /\ pending[c] = {2}
        /\ pc[c] = "await"

(* C19: two fan-out calls of the same method over the same clients and    *)
(* the same responses return the same list, entries and order, whatever    *)
(* the order in which the invocations of each settle.                      *)
C19_FanOutIdempotent ==
    \A c, d \in Calls :
        (/\ op[c] \in FromAllOps /\ op[d] = op[c]
         /\ pc[c] = "done" /\ pc[d] = "done") =>
            /\ outcome[c].kind = "return"
            /\ outcome[d] = outcome[c]

(* Two fan-out calls over two succeeding clients, settled in opposite      *)
(* orders.                                                                 *)
C19_Witness ==
    \E c, d \in Calls :
        /\ c # d /\ op[c] \in FromAllOps /\ op[d] = op[c]
        /\ pc[c] = "done" /\ pc[d] = "done"
        /\ N = 2 /\ Succeeds(1) /\ Succeeds(2)
        /\ settled[c] = <<1, 2>> /\ settled[d] = <<2, 1>>
        /\ Len(Entries(c)) = 2

(* fromAll run to its end over the list cl with no other call in flight. *)
fromAllAlone(cl, be, o, a) ==
    LET results == [p \in 1..Len(cl) |->
                       LET r == ClientOp(cl[p], o, a, be)
                       IN  IF r.kind = "return"
                           THEN [status |-> "fulfilled",
                                 value |-> [workspace |-> cl[p].label, data |-> r.value]]
                           ELSE [status |-> "rejected", reason |-> r.error]]
    IN  MethodResult(o, FromAllOutcome(results))

(* A clients[0] method run to its end with no other call in flight. *)
singleAlone(cl, be, o, a) ==
    IF Len(cl) = 0
    THEN Throw(TypeError("Cannot read properties of undefined", <<o>>))
    ELSE ClientOp(cl[First], o, a, be)

Alone(c) ==
    IF op[c] \in TryEachOps THEN tryEachAlone(clients, backend, op[c], arg[c])
    ELSE IF op[c] \in FromAllOps THEN fromAllAlone(clients, backend, op[c], arg[c])
    ELSE singleAlone(clients, backend, op[c], arg[c])

(* The positions a call invokes when run alone, in order. *)
AloneInvoked(c) ==
    IF op[c] \in TryEachOps
    THEN LET ks == {k \in 1..N : Succeeds(k)}
             last == IF ks = {} THEN N ELSE CHOOSE k \in ks : \A j \in ks : k <= j
         IN  Upto(last)
    ELSE IF op[c] \in FromAllOps THEN Upto(N)
    ELSE IF N = 0 THEN <<>> ELSE <<First>>

(* What a call keeps between its steps. *)
CallState(c) ==
    <<op[c], arg[c], pc[c], invoked[c], pending[c], settled[c], lastError[c], outcome[c]>>

(* C20: with several calls in flight, in any interleaving, every call ends *)
(* with the outcome and the sequence of invocations it has when run alone  *)
(* against the same responses, the client list is the same for all, and a  *)
(* step of one call changes nothing another call keeps (its last error,    *)
(* its results, its position in the list).                                 *)
C20_ConcurrentCallsIndependent ==
    /\ [](\A c \in Calls :
              pc[c] = "done" =>
                  /\ SameOutcome(outcome[c], Alone(c))
                  /\ invoked[c] = AloneInvoked(c))
    /\ [][/\ clients' = clients
          /\ \A c, d \in Calls :
                 (c # d /\ CallState(c)' # CallState(c)) => CallState(d)' = CallState(d)]_vars

(* A fallback call and a fan-out call in flight together: the fallback    *)
(* call is past a failed first client, the fan-out call has one of its two *)
(* invocations settled.                                                    *)
C20_Witness ==
    \E c, d \in Calls :
        /\ c # d /\ op[c] \in TryEachOps /\ op[d] \in FromAllOps
        /\ pc[c] = "await" /\ pc[d] = "await"
        /\ N = 2
        /\ invoked[c] = <<1, 2>> /\ lastError[c] # Undefined
        /\ settled[d] = <<2>> /\ pending[d] = {1}

(* A finished call that is one query of the first client and nothing else. *)
OneQuery(c) ==
    /\ pc[c] = "done" /\ N >= 1
    /\ op[c] \in SingleOps /\ arg[c] # "invalid"

NamedVariables(e) ==
    LET IsNamed(en) == en.key.prefix = "RAILWAY_TOKEN_" /\ en.value # <<>>
    IN  SelectSeq(e.named, IsNamed)

(* The suffix lower-cased, its underscores replaced by spaces. *)
LabelOfSuffix(suffix) ==
    CASE suffix = <<"A", "_", "b">> -> <<"a", " ", "b">>
      [] suffix = <<>> -> <<>>

(* The entries of a comma-separated string, in their written order. *)
WrittenEntries(str) ==
    LET commas == {i \in DOMAIN str : str[i] = ","}
        cut(k) == IF k = 0 THEN 0
                  ELSE IF k > Cardinality(commas) THEN Len(str) + 1
                  ELSE CHOOSE i \in commas : Cardinality({j \in commas : j <= i}) = k
    IN  [k \in 1..(Cardinality(commas) + 1) |-> SubSeq(str, cut(k - 1) + 1, cut(k) - 1)]

(* An entry without the spaces around it. *)
Trimmed(str) ==
    LET inked == {i \in DOMAIN str : str[i] # " "}
    IN  IF inked = {} THEN <<>>
        ELSE SubSeq(str, CHOOSE i \in inked : \A j \in inked : i <= j,
                         CHOOSE i \in inked : \A j \in inked : j <= i)

ListedTokens(e) ==
    IF ~e.RAILWAY_API_TOKENS.set THEN <<>>
    ELSE LET es == WrittenEntries(e.RAILWAY_API_TOKENS.value)
             NonEmpty(t) == t # <<>>
         IN  SelectSeq([k \in DOMAIN es |-> Trimmed(es[k])], NonEmpty)

(* The workspace list the environment e stands for. *)
Workspaces(e) ==
    LET named == NamedVariables(e)
        listed == ListedTokens(e)
    IN  IF Len(named) > 0
        THEN [i \in DOMAIN named |->
                 [token |-> named[i].value, label |-> LabelOfSuffix(named[i].key.rest)]]
        ELSE IF Len(listed) > 0
        THEN [i \in DOMAIN listed |->
                 [token |-> listed[i], label |-> <<"workspace-", ToString(i)>>]]
        ELSE IF e.RAILWAY_API_TOKEN.set /\ e.RAILWAY_API_TOKEN.value # <<>>
        THEN <<[token |-> e.RAILWAY_API_TOKEN.value, label |-> <<"default">>]>>
        ELSE <<>>

(* C22: once the process has loaded its tokens, the router's clients are   *)
(* those of exactly one source: the named variables with a non-empty value *)
(* when there is one (label: the suffix lower-cased, underscores as        *)
(* spaces), otherwise the non-empty trimmed entries of RAILWAY_API_TOKENS  *)
(* in written order as workspace-1..n, otherwise RAILWAY_API_TOKEN as      *)
(* "default"; and with no token the process has exited with status 1 and   *)
(* no router was constructed.                                              *)
C22_TokenSourcePrecedence ==
    process.state # "loading" =>
        LET ws == Workspaces(env)
        IN  IF Len(ws) = 0
            THEN process = [state |-> "exited", code |-> 1] /\ clients = <<>>
            ELSE /\ process.state = "serving"
                 /\ Len(clients) = Len(ws)
                 /\ \A i \in DOMAIN ws :
                        /\ clients[i].token = ws[i].token
                        /\ clients[i].label =
                               (IF ws[i].label = <<>> THEN <<"default">> ELSE ws[i].label)

(* All three sources are set: the router has the two named tokens only. *)
C22_Witness ==
    /\ process.state = "serving"
    /\ Truthy(env.RAILWAY_API_TOKENS) /\ Len(ListedTokens(env)) = 2
    /\ Truthy(env.RAILWAY_API_TOKEN)
    /\ Len(env.named) = 2 /\ Len(clients) = 2
    /\ clients[2].label = <<"a", " ", "b">>

(* RAILWAY_API_TOKENS is "b,a" and no variable is named: two workspaces in *)
(* written order.                                                          *)
C22_WitnessListed ==
    /\ process.state = "serving"
    /\ env.named = <<>>
    /\ env.RAILWAY_API_TOKENS = Set(<<"b", ",", "a">>)
    /\ clients = <<[token |-> <<"b">>, label |-> <<"workspace-", "1">>],
                   [token |-> <<"a">>, label |-> <<"workspace-", "2">>]>>

====
